---- MODULE Spec2Model ----
(***************************************************************************)
(* A model of sim_hardware: the simulated GPIO board (sim_GPIO.py) and the *)
(* simulated stepper motor (sim_motor.py).                                 *)
(*                                                                         *)
(* The board is three dictionaries keyed by channel: _board (level),       *)
(* _ioModes (io mode) and _pinToMotor (the motors plugged into a channel). *)
(* A motor is a record of its fields.  Every public function of the two    *)
(* modules is one action that runs the whole call, exceptions included:    *)
(* a call that raises keeps the mutations made before the raise.           *)
(***************************************************************************)
EXTENDS Integers, Sequences, FiniteSets, TLC

VARIABLES
    board,       \* sim_GPIO._board: channel -> level (BOOLEAN)
    ioModes,     \* sim_GPIO._ioModes: channel -> "None" | "out"
    pinToMotor,  \* sim_GPIO._pinToMotor: channel -> sequence of motor names
    motor,       \* the vMotor objects: name -> record of the object's fields
    result,      \* how the last call ended: its return value or the exception
    rot,         \* what the last call, if it was rotate, did (history)
    clm          \* the arguments and result of a bare _closestLoopMovement call

vars == <<board, ioModes, pinToMotor, motor, result, rot, clm>>

-----------------------------------------------------------------------------
(* Bounds of the model *)

\* STEPS_PER_REV of the modelled motor (the constructor's default is 200)
SmallStepsPerRev == 4
\* _closestLoopMovement is applied to currPos, newPos in -MaxPos..MaxPos
MaxPos == 7
\* ... and to loopSize in 1..MaxLoop
MaxLoop == 6

-----------------------------------------------------------------------------
(* Constants of the program *)

HIGH == TRUE
LOW == FALSE
\* sim_GPIO.IN (IN is a reserved word of TLA+)
GPIO_IN == "in"
OUT == "out"
\* Python's None, where it stands for an io mode
None == "None"
FullTurn == 360
DefaultGearRatio == 1

\* the channels track-config.json names for the "Alt" motor and the two
\* microstep lines, and an id that the configuration does not name
AltStep == 1
AltDir == 2
Ms1Pin == 3
Ms2Pin == 4
ConfigPins == {AltStep, AltDir, Ms1Pin, Ms2Pin}

\* MSTEP_PIN_STATES[(ms1, ms2)]
MSTEP_PIN_STATES(ms1, ms2) ==
    IF ~ms1 /\ ~ms2 THEN 1
    ELSE IF ms1 /\ ~ms2 THEN 2
    ELSE IF ~ms1 /\ ms2 THEN 4
    ELSE 8

-----------------------------------------------------------------------------
(* Python arithmetic *)

abs(x) == IF x < 0 THEN -x ELSE x

\* int(num / den) for den > 0: true division, then truncation toward zero
int(num, den) == IF num >= 0 THEN num \div den ELSE -((-num) \div den)

\* how a call ended
NoErr == "ok"
KeyError == "KeyError"
ModeNotSetError == "Exception: ioMode is not set"
InputError == "Exception: input pins are not simulated"
ValueError == "ValueError"
UnboundLocalError == "UnboundLocalError"

-----------------------------------------------------------------------------
(* sim_motor.py *)

\* _closestLoopMovement with <= for <: a tie goes to the backward path
_closestLoopMovement_PreferLower(currPos, newPos, loopSize) ==
    LET c == currPos % loopSize
        n == newPos % loopSize
        upper == IF n < c THEN n + loopSize ELSE n
        lower == IF n < c THEN n ELSE n - loopSize
    IN  IF c = n THEN 0
        ELSE IF (c - lower) <= (upper - c) THEN lower - c ELSE upper - c

\* _closestLoopMovement without line 26, newPos %= loopSize
_closestLoopMovement_NoNewPosMod(currPos, newPos, loopSize) ==
    LET c == currPos % loopSize
        n == newPos
        upper == IF n < c THEN n + loopSize ELSE n
        lower == IF n < c THEN n ELSE n - loopSize
    IN  IF c = n THEN 0
        ELSE IF (c - lower) < (upper - c) THEN lower - c ELSE upper - c

\* _closestLoopMovement with > for <: the longer path is taken
_closestLoopMovement_Farther(currPos, newPos, loopSize) ==
    LET c == currPos % loopSize
        n == newPos % loopSize
        upper == IF n < c THEN n + loopSize ELSE n
        lower == IF n < c THEN n ELSE n - loopSize
    IN  IF c = n THEN 0
        ELSE IF (c - lower) > (upper - c) THEN lower - c ELSE upper - c

_closestLoopMovement(currPos, newPos, loopSize) ==
    LET c == currPos % loopSize
        n == newPos % loopSize
        upper == IF n < c THEN n + loopSize ELSE n
        lower == IF n < c THEN n ELSE n - loopSize
    IN  IF c = n THEN 0
        ELSE IF (c - lower) < (upper - c) THEN lower - c ELSE upper - c

\* vMotor.__init__
vMotor(pins, stepsPerRev, gearRatio) ==
    [ _msteps |-> 0, _mstepMode |-> 1, _gearRatio |-> gearRatio, _dir |-> 1,
      _hasMoved |-> FALSE,
      PINS |-> [step |-> pins[1], dir |-> pins[2], ms1 |-> pins[3], ms2 |-> pins[4]],
      STEPS_PER_REV |-> stepsPerRev ]

\* the modulus of _step and the loop size of rotate
cycleSize(m) == m.STEPS_PER_REV * m._mstepMode * m._gearRatio

\* vMotor.mstepsToDegrees(numMsteps), as the rational <<numerator, denominator>>
mstepsToDegrees(m, numMsteps) == <<numMsteps * FullTurn, m.STEPS_PER_REV * m._mstepMode>>

\* vMotor.degrees
degrees(m) == mstepsToDegrees(m, m._msteps)

degreesToMsteps(m, deg, useGearOut) ==
    IF useGearOut
    THEN int(deg * m._gearRatio * m.STEPS_PER_REV * m._mstepMode, FullTurn)
    ELSE int(deg * m.STEPS_PER_REV * m._mstepMode, FullTurn)

_step(m) == [m EXCEPT !._msteps = (m._msteps + m._dir) % cycleSize(m)]

\* the pulse part of updateState with the latch never set
pulseStep_NoLatch(m, b) ==
    LET m1 == IF ~b[m.PINS.step] THEN [m EXCEPT !._hasMoved = FALSE] ELSE m
    IN  IF ~m1._hasMoved /\ b[m.PINS.step] THEN _step(m1) ELSE m1

\* updateState, lines 98-102: the latch and the step
pulseStep(m, b) ==
    LET m1 == IF ~b[m.PINS.step] THEN [m EXCEPT !._hasMoved = FALSE] ELSE m
    IN  IF ~m1._hasMoved /\ b[m.PINS.step]
        THEN [_step(m1) EXCEPT !._hasMoved = TRUE]
        ELSE m1

\* board.get(pin) is not None
hasLevel(b, pin) == pin \in DOMAIN b

\* the recalibration without line 112: the new mode is not recorded
recalibrate_KeepMode(m, newMode) ==
    LET moved == m._msteps
                 + _closestLoopMovement(m._msteps,
                                        m._msteps + (newMode - (m._msteps % newMode)),
                                        newMode)
    IN  [m EXCEPT !._msteps = int(moved * newMode, m._mstepMode)]

\* updateState, lines 108-112: the recalibration to newMode
recalibrate(m, newMode) ==
    LET moved == m._msteps
                 + _closestLoopMovement(m._msteps,
                                        m._msteps + (newMode - (m._msteps % newMode)),
                                        newMode)
    IN  [m EXCEPT !._msteps = int(moved * newMode, m._mstepMode),
                  !._mstepMode = newMode]

\* updateState, lines 104-112
modeStep(m, b) ==
    IF hasLevel(b, m.PINS.ms1) /\ hasLevel(b, m.PINS.ms2)
    THEN LET newMode == MSTEP_PIN_STATES(b[m.PINS.ms1], b[m.PINS.ms2])
         IN  IF newMode # m._mstepMode THEN recalibrate(m, newMode) ELSE m
    ELSE m

updateState(m, b) ==
    LET m1 == [m EXCEPT !._dir = IF b[m.PINS.dir] THEN -1 ELSE 1]
    IN  modeStep(pulseStep(m1, b), b)

-----------------------------------------------------------------------------
(* sim_GPIO.py.  A board state st is [board, ioModes, pinToMotor, motor, err]; *)
(* err is NoErr until a statement raises, and nothing runs after a raise.      *)

boardState == [board |-> board, ioModes |-> ioModes, pinToMotor |-> pinToMotor,
               motor |-> motor, err |-> NoErr]

\* a channel argument: an int or a list of ints
Single(c) == [kind |-> "int", v |-> <<c>>]
Many(cs) == [kind |-> "list", v |-> cs]

\* d[k] = v on a dictionary
setItem(d, k, v) == [x \in DOMAIN d \cup {k} |-> IF x = k THEN v ELSE d[x]]

RECURSIVE notify(_, _, _)
\* _setState, lines 114-116: every motor of the channel, in list order
notify(mt, names, b) ==
    IF names = <<>> THEN mt
    ELSE notify([mt EXCEPT ![Head(names)] = updateState(mt[Head(names)], b)],
                Tail(names), b)

\* _setState notifying every motor, plugged into the channel or not
_setState_NotifyAll(st, channel, state) ==
    IF channel \notin DOMAIN st.ioModes THEN [st EXCEPT !.err = KeyError]
    ELSE IF st.ioModes[channel] = None THEN [st EXCEPT !.err = ModeNotSetError]
    ELSE IF st.ioModes[channel] = GPIO_IN THEN [st EXCEPT !.err = InputError]
    ELSE LET b == setItem(st.board, channel, state)
         IN  [st EXCEPT !.board = b,
                        !.motor = [n \in DOMAIN st.motor |->
                                      updateState(st.motor[n], b)]]

_setState(st, channel, state) ==
    IF channel \notin DOMAIN st.ioModes THEN [st EXCEPT !.err = KeyError]
    ELSE IF st.ioModes[channel] = None THEN [st EXCEPT !.err = ModeNotSetError]
    ELSE IF st.ioModes[channel] = GPIO_IN THEN [st EXCEPT !.err = InputError]
    ELSE LET b == setItem(st.board, channel, state)
             names == IF channel \in DOMAIN st.pinToMotor
                      THEN st.pinToMotor[channel] ELSE <<>>
         IN  [st EXCEPT !.board = b, !.motor = notify(st.motor, names, b)]

\* _setIoMode without the test of line 98
_setIoMode_AllowIn(st, channel, ioMode) ==
    [st EXCEPT !.ioModes = setItem(st.ioModes, channel, ioMode)]

_setIoMode(st, channel, ioMode) ==
    IF ioMode = GPIO_IN THEN [st EXCEPT !.err = InputError]
    ELSE [st EXCEPT !.ioModes = setItem(st.ioModes, channel, ioMode)]

\* _freeChannel without line 120: the io mode is kept
_freeChannel_KeepMode(st, channel) ==
    [st EXCEPT !.board = setItem(st.board, channel, FALSE)]

_freeChannel(st, channel) ==
    [st EXCEPT !.board = setItem(st.board, channel, FALSE),
               !.ioModes = setItem(st.ioModes, channel, None)]

inList(x, s) == \E i \in 1..Len(s) : s[i] = x

_plugIn(st, name, channel) ==
    IF channel \notin DOMAIN st.pinToMotor THEN [st EXCEPT !.err = KeyError]
    ELSE IF ~inList(name, st.pinToMotor[channel])
    THEN [st EXCEPT !.pinToMotor[channel] = Append(@, name)]
    ELSE st

RECURSIVE setStateLoop(_, _, _)
\* output, lines 208-209
setStateLoop(st, cs, ss) ==
    IF cs = <<>> \/ ss = <<>> \/ st.err # NoErr THEN st
    ELSE setStateLoop(_setState(st, Head(cs), Head(ss)), Tail(cs), Tail(ss))

RECURSIVE setIoModeLoop(_, _, _)
\* setup, lines 185-186
setIoModeLoop(st, cs, ios) ==
    IF cs = <<>> \/ ios = <<>> \/ st.err # NoErr THEN st
    ELSE setIoModeLoop(_setIoMode(st, Head(cs), Head(ios)), Tail(cs), Tail(ios))

RECURSIVE freeChannelLoop(_, _)
\* cleanup, lines 228-229
freeChannelLoop(st, cs) ==
    IF cs = <<>> THEN st ELSE freeChannelLoop(_freeChannel(st, Head(cs)), Tail(cs))

RECURSIVE plugInLoop(_, _, _)
\* vPlugIn, lines 129-130
plugInLoop(st, name, cs) ==
    IF cs = <<>> \/ st.err # NoErr THEN st
    ELSE plugInLoop(_plugIn(st, name, Head(cs)), name, Tail(cs))

\* [x] * n
repeat(x, n) == [i \in 1..n |-> x]

\* output(channel, state): state is a single value or a list
output(st, channel, state) ==
    IF channel.kind = "list"
    THEN LET ss == IF state.kind = "int" THEN repeat(state.v[1], Len(channel.v))
                   ELSE state.v
         IN  IF Len(channel.v) # Len(ss) THEN [st EXCEPT !.err = ValueError]
             ELSE setStateLoop(st, channel.v, ss)
    ELSE IF state.kind = "int" THEN _setState(st, channel.v[1], state.v[1])
    ELSE [st EXCEPT !.err = ValueError]

\* setup(channel, ioMode)
setup(st, channel, ioMode) ==
    IF channel.kind = "list"
    THEN LET ios == IF ioMode.kind = "int" THEN repeat(ioMode.v[1], Len(channel.v))
                    ELSE ioMode.v
         IN  IF Len(channel.v) # Len(ios) THEN [st EXCEPT !.err = ValueError]
             ELSE setIoModeLoop(st, channel.v, ios)
    ELSE IF ioMode.kind = "int" THEN _setIoMode(st, channel.v[1], ioMode.v[1])
    ELSE [st EXCEPT !.err = ValueError]

RECURSIVE setToSeq(_)
\* tuple(_board.keys()), in increasing order
setToSeq(S) ==
    IF S = {} THEN <<>>
    ELSE LET x == CHOOSE y \in S : \A z \in S : y <= z
         IN  <<x>> \o setToSeq(S \ {x})

\* cleanup(channel); channel.kind = "none" is the call without an argument
cleanup(st, channel) ==
    IF channel.kind = "none" THEN freeChannelLoop(st, setToSeq(DOMAIN st.board))
    ELSE freeChannelLoop(st, channel.v)

\* vPlugIn(motor, channel): the int branch reads the unbound loop variable c
vPlugIn(st, name, channel) ==
    IF channel.kind = "list" THEN plugInLoop(st, name, channel.v)
    ELSE [st EXCEPT !.err = UnboundLocalError]

-----------------------------------------------------------------------------
(* vMotor.rotate.  A limit argument is <<>> for None and <<deg>> otherwise. *)

\* the condition of the if statement, lines 143-144: the pulse may be sent
limitFree(m, isCCW, ccLimit, cwLimit, useGearOut) ==
    \/ /\ isCCW
       /\ \/ ccLimit = <<>>
          \/ ~((m._msteps - 1) <= degreesToMsteps(m, ccLimit[1], useGearOut))
    \/ /\ ~isCCW
       /\ \/ cwLimit = <<>>
          \/ ~((m._msteps + 1) >= degreesToMsteps(m, cwLimit[1], useGearOut))

\* the pulse without its second half: the step line is left HIGH
pulse_NoLow(st, m) == output(st, Single(m.PINS.step), Single(HIGH))

\* lines 145-148: HIGH, then LOW, on the step line
pulse(st, m) ==
    LET hi == output(st, Single(m.PINS.step), Single(HIGH))
    IN  IF hi.err # NoErr THEN hi ELSE output(hi, Single(m.PINS.step), Single(LOW))

RECURSIVE pulseLoop(_, _, _, _, _, _, _)
\* the for loop, lines 142-151, with n iterations left.  r = [st, ret, pulses,
\* trail]: pulses counts the pulses sent and trail lists _msteps at the call
\* and after each pulse.
pulseLoop(r, name, n, isCCW, ccLimit, cwLimit, useGearOut) ==
    IF n = 0 THEN [r EXCEPT !.ret = "True"]
    ELSE IF limitFree(r.st.motor[name], isCCW, ccLimit, cwLimit, useGearOut)
    THEN LET after == pulse(r.st, r.st.motor[name])
         IN  IF after.err # NoErr
             THEN [r EXCEPT !.st = after, !.ret = after.err]
             ELSE pulseLoop([r EXCEPT !.st = after,
                                      !.pulses = @ + 1,
                                      !.trail = Append(@, after.motor[name]._msteps)],
                            name, n - 1, isCCW, ccLimit, cwLimit, useGearOut)
    ELSE [r EXCEPT !.ret = "False"]

\* rotate with the direction written before the test of line 130
rotate_DirFirst(st, name, targDeg, ccLimit, cwLimit, useGearOut) ==
    LET m == st.motor[name]
        target == degreesToMsteps(m, targDeg % FullTurn, useGearOut)
        relMsteps == _closestLoopMovement(m._msteps, target, cycleSize(m))
        isCCW == relMsteps < 0
        r0 == [st |-> st, ret |-> "False", pulses |-> 0, trail |-> <<m._msteps>>,
               target |-> target, relMsteps |-> relMsteps, loopSize |-> cycleSize(m)]
        turned == output(st, Single(m.PINS.dir), Single(isCCW))
    IN  IF turned.err # NoErr THEN [r0 EXCEPT !.st = turned, !.ret = turned.err]
        ELSE IF relMsteps = 0 THEN [r0 EXCEPT !.st = turned]
        ELSE pulseLoop([r0 EXCEPT !.st = turned], name, abs(relMsteps),
                       isCCW, ccLimit, cwLimit, useGearOut)

\* rotate(targDeg, ccLimit, cwLimit, useGearOut) of motor name, from board state st
rotate(st, name, targDeg, ccLimit, cwLimit, useGearOut) ==
    LET m == st.motor[name]
        target == degreesToMsteps(m, targDeg % FullTurn, useGearOut)
        relMsteps == _closestLoopMovement(m._msteps, target, cycleSize(m))
        isCCW == relMsteps < 0
        r0 == [st |-> st, ret |-> "False", pulses |-> 0, trail |-> <<m._msteps>>,
               target |-> target, relMsteps |-> relMsteps, loopSize |-> cycleSize(m)]
    IN  IF relMsteps = 0 THEN r0
        ELSE LET turned == output(st, Single(m.PINS.dir), Single(isCCW))
             IN  IF turned.err # NoErr
                 THEN [r0 EXCEPT !.st = turned, !.ret = turned.err]
                 ELSE pulseLoop([r0 EXCEPT !.st = turned], name, abs(relMsteps),
                                isCCW, ccLimit, cwLimit, useGearOut)

-----------------------------------------------------------------------------
(* The state after the modules are loaded and one motor is constructed *)

NoRot == [called |-> FALSE]
NoClm == [currPos |-> 0, newPos |-> 0, loopSize |-> 1, out |-> <<>>]

\* sim_GPIO's module initialization, lines 77-86, and vMotor(pins, stepsPerRev)
Init ==
    /\ board = [p \in ConfigPins |-> LOW]
    /\ ioModes = [p \in ConfigPins |-> None]
    /\ pinToMotor = [p \in ConfigPins |-> <<>>]
    /\ motor = [n \in {"alt"} |->
                  vMotor(<<AltStep, AltDir, Ms1Pin, Ms2Pin>>, SmallStepsPerRev,
                         DefaultGearRatio)]
    /\ result = NoErr
    /\ rot = NoRot
    /\ clm = NoClm

\* the same, with the arguments of a _closestLoopMovement call chosen
InitCLM ==
    /\ board = [p \in ConfigPins |-> LOW]
    /\ ioModes = [p \in ConfigPins |-> None]
    /\ pinToMotor = [p \in ConfigPins |-> <<>>]
    /\ motor = [n \in {"alt"} |->
                  vMotor(<<AltStep, AltDir, Ms1Pin, Ms2Pin>>, SmallStepsPerRev,
                         DefaultGearRatio)]
    /\ result = NoErr
    /\ rot = NoRot
    /\ clm \in [currPos : -MaxPos..MaxPos, newPos : -MaxPos..MaxPos,
                loopSize : 1..MaxLoop, out : {<<>>}]

-----------------------------------------------------------------------------
(* The calls *)

\* the state after a board call that ended in board state st
commit(st) ==
    /\ board' = st.board
    /\ ioModes' = st.ioModes
    /\ pinToMotor' = st.pinToMotor
    /\ motor' = st.motor
    /\ result' = st.err
    /\ rot' = NoRot
    /\ UNCHANGED clm

\* GPIO.setup(channel, ioMode)
Setup(channel, ioMode) ==
    \E st \in {setup(boardState, channel, ioMode)} : commit(st)

\* GPIO.output(channel, state)
Output(channel, state) ==
    \E st \in {output(boardState, channel, state)} : commit(st)

\* GPIO.cleanup(channel)
Cleanup(channel) ==
    \E st \in {cleanup(boardState, channel)} : commit(st)

\* GPIO.vPlugIn(motor, channel)
VPlugIn(name, channel) ==
    \E st \in {vPlugIn(boardState, name, channel)} : commit(st)

\* motor.rotate(targDeg, ccLimit, cwLimit, useGearOut)
Rotate(name, targDeg, ccLimit, cwLimit, useGearOut) ==
    \E r \in {rotate(boardState, name, targDeg, ccLimit, cwLimit, useGearOut)} :
        /\ board' = r.st.board
        /\ ioModes' = r.st.ioModes
        /\ pinToMotor' = r.st.pinToMotor
        /\ motor' = r.st.motor
        /\ result' = r.ret
        /\ rot' = [called |-> TRUE, name |-> name, pre |-> boardState,
                   targDeg |-> targDeg, ccLimit |-> ccLimit, cwLimit |-> cwLimit,
                   useGearOut |-> useGearOut, target |-> r.target,
                   relMsteps |-> r.relMsteps, loopSize |-> r.loopSize,
                   pulses |-> r.pulses, trail |-> r.trail]
        /\ UNCHANGED clm

\* a bare call of _closestLoopMovement on the chosen arguments
ClosestLoopMovement ==
    /\ clm.out = <<>>
    /\ clm' = [clm EXCEPT !.out =
                  <<_closestLoopMovement(clm.currPos, clm.newPos, clm.loopSize)>>]
    /\ UNCHANGED <<board, ioModes, pinToMotor, motor, result, rot>>

-----------------------------------------------------------------------------
(* The inputs *)

\* the lines the caller of the rotation runs drives by hand
RotatePins == {AltStep, AltDir, Ms1Pin}
\* the angles rotate is asked for, and its limits
TargDegs == {0, 180, 270, 450}
CcLimits == {<<>>, <<270>>}
CwLimits == {<<>>, <<90>>}

SetupAny == \E c \in ConfigPins, io \in {OUT, GPIO_IN} : Setup(Single(c), Single(io))
OutputAny == \E c \in ConfigPins, s \in BOOLEAN : Output(Single(c), Single(s))
CleanupAny ==
    \/ \E c \in ConfigPins : Cleanup(Single(c))
    \/ Cleanup([kind |-> "none", v |-> <<>>])
\* the lists a motor is plugged in with: its step and direction lines, its
\* microstep lines, or all four
PlugLists == {<<AltStep, AltDir>>, <<Ms1Pin, Ms2Pin>>,
              <<AltStep, AltDir, Ms1Pin, Ms2Pin>>}
VPlugInAny == \E cs \in PlugLists : VPlugIn("alt", Many(cs))
VPlugInAll == VPlugIn("alt", Many(<<AltStep, AltDir, Ms1Pin, Ms2Pin>>))

Next == SetupAny \/ OutputAny \/ CleanupAny \/ VPlugInAny

Spec == Init /\ [][Next]_vars

SetupSome == \E c \in RotatePins : Setup(Single(c), Single(OUT))
OutputSome == \E c \in RotatePins, s \in BOOLEAN : Output(Single(c), Single(s))
CleanupSome == \E c \in RotatePins : Cleanup(Single(c))
RotateSome ==
    \E t \in TargDegs, cc \in CcLimits, cw \in CwLimits :
        Rotate("alt", t, cc, cw, TRUE)

NextRotate == SetupSome \/ OutputSome \/ CleanupSome \/ VPlugInAll \/ RotateSome

SpecRotate == Init /\ [][NextRotate]_vars

NextCLM == ClosestLoopMovement

SpecCLM == InitCLM /\ [][NextCLM]_vars

-----------------------------------------------------------------------------
(* _closestLoopMovement as a function *)

clmCalled == clm.out # <<>>
clmC == clm.currPos % clm.loopSize
clmN == clm.newPos % clm.loopSize

\* C8: for all integers currPos, newPos and loopSize > 0, the displacement d
\* that _closestLoopMovement returns carries currPos to the class of newPos,
\* (currPos + d) mod loopSize = newPos mod loopSize, and d = 0 exactly when
\* currPos and newPos are congruent modulo loopSize.
C8_Congruent ==
    clmCalled =>
        /\ (clm.currPos + clm.out[1]) % clm.loopSize = clm.newPos % clm.loopSize
        /\ (clm.out[1] = 0) <=> (clmC = clmN)

\* a call on a negative currPos whose answer wraps around the end of the loop
C8_Witness ==
    /\ clmCalled
    /\ clm.currPos < 0
    /\ clm.out[1] # 0
    /\ clm.out[1] # clmN - clmC

\* the two paths of a call have the same length, inside [0, loopSize)
clmTie ==
    /\ clmCalled
    /\ clm.currPos \in 0..(clm.loopSize - 1)
    /\ clm.newPos \in 0..(clm.loopSize - 1)
    /\ 2 * abs(clm.newPos - clm.currPos) = clm.loopSize

\* C10, as claimed: on a tie the displacement returned is the one without
\* wrap-around: currPos + d stays inside [0, loopSize) and is newPos itself,
\* for newPos > currPos and for newPos < currPos.
C10_TieNoWrap ==
    clmTie =>
        /\ clm.currPos + clm.out[1] \in 0..(clm.loopSize - 1)
        /\ clm.currPos + clm.out[1] = clm.newPos

\* C10, amended: on a tie the displacement returned is the forward one,
\* d = +loopSize/2; it needs no wrap-around (currPos + d = newPos) when
\* newPos > currPos, and wraps (currPos + d = newPos + loopSize) when
\* newPos < currPos.
C10_TieForward ==
    clmTie =>
        /\ 2 * clm.out[1] = clm.loopSize
        /\ clm.newPos > clm.currPos => clm.currPos + clm.out[1] = clm.newPos
        /\ clm.newPos < clm.currPos =>
               clm.currPos + clm.out[1] = clm.newPos + clm.loopSize

\* a tie with newPos behind currPos: the case where the answer wraps
C10_Witness == clmTie /\ clm.newPos < clm.currPos

-----------------------------------------------------------------------------
(* rotate.  After a rotate call rot holds the board state before the call  *)
(* (rot.pre), the arguments, the displacement the call computed and what   *)
(* its loop did; the variables hold the state after the call.              *)

\* the motor after and before the call
rotM == motor[rot.name]
preM == rot.pre.motor[rot.name]
preB == rot.pre.board

plugged(name, channel) == inList(name, pinToMotor[channel])

\* the motor's mode is the one its microstep lines select
modeInSync(m, b) ==
    (hasLevel(b, m.PINS.ms1) /\ hasLevel(b, m.PINS.ms2))
        => m._mstepMode = MSTEP_PIN_STATES(b[m.PINS.ms1], b[m.PINS.ms2])

\* +1 for a clockwise displacement, -1 for a counter-clockwise one
travel == IF rot.relMsteps < 0 THEN -1 ELSE 1

\* what C3 starts from: plugged into the step line, step and direction lines
\* in OUTPUT mode, step line LOW, latch clear, no limits, d # 0
C3_Start ==
    /\ rot.called
    /\ plugged(rot.name, preM.PINS.step)
    /\ ioModes[preM.PINS.step] = OUT
    /\ ioModes[preM.PINS.dir] = OUT
    /\ ~preB[preM.PINS.step]
    /\ ~preM._hasMoved
    /\ rot.ccLimit = <<>>
    /\ rot.cwLimit = <<>>
    /\ rot.relMsteps # 0

C3_Done ==
    /\ board[preM.PINS.dir] = (rot.relMsteps < 0)
    /\ rot.pulses = abs(rot.relMsteps)
    /\ result = "True"
    /\ rotM._msteps = rot.target

everyPulseAdvanced ==
    \A i \in 1..rot.pulses :
        rot.trail[i + 1] = (rot.trail[i] + travel) % rot.loopSize

\* C4, as claimed: for a motor plugged into its own step line, every pulse
\* that rotate sends advances _msteps by exactly one microstep in the
\* direction of travel, whatever levels and latch state earlier writes left
\* behind, and so when rotate returns True the final position is congruent to
\* the target modulo the cycle size.
C4_EveryPulseAdvances ==
    (rot.called /\ plugged(rot.name, preM.PINS.step)) =>
        /\ everyPulseAdvanced
        /\ result = "True" => rotM._msteps % rot.loopSize = rot.target % rot.loopSize

\* the limit in the direction of travel, in microsteps of motor m; <<>> if none
limitMsteps(m) ==
    IF rot.relMsteps < 0
    THEN IF rot.ccLimit = <<>> THEN <<>>
         ELSE <<degreesToMsteps(m, rot.ccLimit[1], rot.useGearOut)>>
    ELSE IF rot.cwLimit = <<>> THEN <<>>
         ELSE <<degreesToMsteps(m, rot.cwLimit[1], rot.useGearOut)>>

\* the limit lies strictly between the position at the call and the target,
\* in the direction of travel
limitOnTheWay ==
    /\ rot.called
    /\ rot.relMsteps # 0
    /\ limitMsteps(preM) # <<>>
    /\ IF rot.relMsteps > 0
       THEN /\ preM._msteps < limitMsteps(preM)[1]
            /\ limitMsteps(preM)[1] < preM._msteps + rot.relMsteps
       ELSE /\ preM._msteps > limitMsteps(preM)[1]
            /\ limitMsteps(preM)[1] > preM._msteps + rot.relMsteps

\* rotate returned False at the last position short of the limit
stoppedShortOfLimit ==
    /\ result = "False"
    /\ rot.pulses < abs(rot.relMsteps)
    /\ rotM._msteps + travel = limitMsteps(rotM)[1]
    /\ rotM._msteps % rot.loopSize # rot.target % rot.loopSize
    /\ \A i \in 1..Len(rot.trail) :
           IF rot.relMsteps > 0 THEN rot.trail[i] < limitMsteps(rotM)[1]
           ELSE rot.trail[i] > limitMsteps(rotM)[1]

\* C5: with a limit in the direction of travel and the target beyond it,
\* rotate (of a motor plugged into its own step line, with the step and
\* direction lines in OUTPUT mode and its microstep mode the one the ms1/ms2
\* lines select) returns False and _msteps stays at the last position before
\* the limit, never at or past it and never at the target.
C5_StopsShortOfLimit ==
    (/\ limitOnTheWay
     /\ plugged(rot.name, preM.PINS.step)
     /\ ioModes[preM.PINS.step] = OUT
     /\ ioModes[preM.PINS.dir] = OUT
     /\ modeInSync(preM, preB)) => stoppedShortOfLimit

\* C6: rotate toward a target congruent to the current position modulo the
\* cycle size returns False and writes nothing: no line level changes and the
\* motor is as it was (an observe of a motor whose mode is out of step with
\* its microstep lines would change it).
C6_NoDisplacementNoWrite ==
    (rot.called /\ preM._msteps % rot.loopSize = rot.target % rot.loopSize) =>
        /\ result = "False"
        /\ rot.pulses = 0
        /\ board = rot.pre.board
        /\ ioModes = rot.pre.ioModes
        /\ pinToMotor = rot.pre.pinToMotor
        /\ motor = rot.pre.motor

\* such a call on a plugged-in motor away from 0 whose lines are in OUTPUT
\* mode, with the direction line HIGH and the mode out of step with ms1
C6_Witness ==
    /\ rot.called
    /\ preM._msteps % rot.loopSize = rot.target % rot.loopSize
    /\ preM._msteps # 0
    /\ plugged(rot.name, preM.PINS.step)
    /\ plugged(rot.name, preM.PINS.dir)
    /\ ioModes[preM.PINS.dir] = OUT
    /\ ioModes[preM.PINS.step] = OUT
    /\ preB[preM.PINS.dir]
    /\ ~modeInSync(preM, preB)

\* C9: the displacement _closestLoopMovement returns is at most half the loop,
\* 2 * |d| <= loopSize, for all currPos, newPos in -MaxPos..MaxPos and
\* loopSize in 1..MaxLoop; hence a rotate call sends at most |d| pulses, no
\* more than half the cycle size.
C9_AtMostHalfLoop ==
    /\ \A c \in -MaxPos..MaxPos, n \in -MaxPos..MaxPos, l \in 1..MaxLoop :
           2 * abs(_closestLoopMovement(c, n, l)) <= l
    /\ rot.called =>
           /\ 2 * abs(rot.relMsteps) <= rot.loopSize
           /\ rot.pulses <= abs(rot.relMsteps)
           /\ 2 * rot.pulses <= rot.loopSize

\* a rotation of exactly half the cycle, all of its pulses sent
C9_Witness ==
    /\ rot.called
    /\ result = "True"
    /\ 2 * rot.pulses = rot.loopSize
    /\ rot.loopSize = 2 * SmallStepsPerRev

-----------------------------------------------------------------------------
(* The motor under direct board calls *)

alt == motor["alt"]

\* the step line goes from LOW to HIGH in this step
risingEdge == ~board[alt.PINS.step] /\ board'[alt.PINS.step]

\* the microstep lines stay as they were at load (LOW) and the mode with them
msUntouched ==
    /\ ~board[alt.PINS.ms1] /\ ~board'[alt.PINS.ms1]
    /\ ~board[alt.PINS.ms2] /\ ~board'[alt.PINS.ms2]
    /\ alt._mstepMode = 1

\* _msteps moved by one microstep in the direction the direction line gives
oneStep ==
    alt'._msteps =
        (alt._msteps + (IF board'[alt.PINS.dir] THEN -1 ELSE 1)) % cycleSize(alt)

\* C1, as claimed: for a motor plugged into its step and direction lines
\* whose microstep lines do not change, over any sequence of setup, output,
\* cleanup and vPlugIn calls _msteps changes exactly when the step line goes
\* from LOW to HIGH, and then by one microstep in the direction of the
\* direction line: no rising edge is missed and no step happens without one.
C1_StepIffRisingEdge ==
    [][ (/\ plugged("alt", alt.PINS.step)
         /\ plugged("alt", alt.PINS.dir)
         /\ msUntouched) =>
            /\ (alt'._msteps # alt._msteps) <=> risingEdge
            /\ risingEdge => oneStep ]_vars

\* this step is a successful write to a line the motor is plugged into, so
\* the motor's updateState ran on the new levels
observed ==
    \E c \in ConfigPins :
        /\ plugged("alt", c)
        /\ result' = NoErr
        /\ Output(Single(c), Single(board'[c]))

\* C2: the motor changes only in an observe.  An observe that sees the step
\* line HIGH (the microstep mode staying as it is) advances _msteps by one
\* microstep if the latch is clear, and sets the latch; with the latch set it
\* leaves _msteps alone and the latch set.  An observe that sees the step line
\* LOW clears the latch and leaves _msteps alone.  So a run of consecutive
\* observes of a HIGH step line advances exactly once in total, on the first
\* of them, and the latch is cleared only by an observe that sees the step
\* line LOW.
C2_OneStepPerHigh ==
    [][ /\ alt' = alt \/ observed
        /\ (alt'._mstepMode = alt._mstepMode) =>
               \/ IF board'[alt.PINS.step]
                  THEN /\ alt'._hasMoved
                       /\ IF alt._hasMoved THEN alt'._msteps = alt._msteps
                          ELSE oneStep
                  ELSE /\ ~alt'._hasMoved
                       /\ alt'._msteps = alt._msteps
               \/ ~observed ]_vars

\* after one clockwise step the direction line was written HIGH with the step
\* line still HIGH: the motor observed again, turned, and did not step
C2_Witness ==
    /\ plugged("alt", alt.PINS.step)
    /\ plugged("alt", alt.PINS.dir)
    /\ board[alt.PINS.step]
    /\ board[alt.PINS.dir]
    /\ alt._hasMoved
    /\ alt._dir = -1
    /\ alt._msteps = 1
    /\ alt._mstepMode = 1

\* two angles <<numerator, denominator>> are the same
sameAngle(a, b) == a[1] * b[2] = b[1] * a[2]

\* C7, as claimed: when an observe takes the microstep mode from 1 to 8
\* (without stepping), the new _msteps is 8 times the old one for every old
\* position in [0, STEPS_PER_REV), and degrees is the same before and after.
C7_ModeSwitchScalesBy8 ==
    [][ (/\ alt._mstepMode = 1
         /\ alt'._mstepMode = 8
         /\ alt'._hasMoved = alt._hasMoved
         /\ alt._msteps \in 0..(alt.STEPS_PER_REV - 1)) =>
            /\ alt'._msteps = 8 * alt._msteps
            /\ sameAngle(degrees(alt'), degrees(alt)) ]_vars

-----------------------------------------------------------------------------
(* The call shapes: ids the configuration does not name, sequences of ids, *)
(* the INPUT mode, and vPlugIn with a single id                            *)

\* an id that is no key of _board after the module initialization
Unreg == Ms2Pin + 1

\* the ids given one at a time
CallIds == {AltStep, AltDir, Unreg}
\* the sequences of ids given to setup, output, cleanup and vPlugIn
CallLists == {<<>>, <<AltStep, AltDir>>, <<AltStep, Unreg>>}
\* the io modes given with a sequence of ids
ModeArgs == {Single(OUT), Single(GPIO_IN), Many(<<OUT, GPIO_IN>>), Many(<<OUT>>)}
\* the levels given with a sequence of ids
LevelArgs == {Single(HIGH), Many(<<HIGH, LOW>>), Many(<<LOW>>)}

SetupOne == \E c \in CallIds, io \in {OUT, GPIO_IN} : Setup(Single(c), Single(io))
SetupList == \E cs \in CallLists, io \in ModeArgs : Setup(Many(cs), io)
OutputOne == \E c \in CallIds, s \in BOOLEAN : Output(Single(c), Single(s))
OutputList == \E cs \in CallLists, ss \in LevelArgs : Output(Many(cs), ss)
CleanupOne == \E c \in CallIds : Cleanup(Single(c))
CleanupList == \E cs \in CallLists : Cleanup(Many(cs))
CleanupAll == Cleanup([kind |-> "none", v |-> <<>>])
VPlugInOne == \E c \in CallIds : VPlugIn("alt", Single(c))
VPlugInList == \E cs \in CallLists : VPlugIn("alt", Many(cs))

NextCalls ==
    \/ SetupOne \/ SetupList
    \/ OutputOne \/ OutputList
    \/ CleanupOne \/ CleanupList \/ CleanupAll
    \/ VPlugInOne \/ VPlugInList

SpecCalls == Init /\ [][NextCalls]_vars

-----------------------------------------------------------------------------
(* updateState on an unchanged snapshot: any motor state, any levels, the  *)
(* motor plugged into every line and every line in OUT mode; a line is     *)
(* written the level it has.                                               *)

\* the values of the fields of a vMotor
MotorStates ==
    { [vMotor(<<AltStep, AltDir, Ms1Pin, Ms2Pin>>, SmallStepsPerRev,
              DefaultGearRatio)
         EXCEPT !._msteps = f[1], !._mstepMode = f[2], !._dir = f[3],
                !._hasMoved = f[4]] :
      f \in { g \in (0..(8 * SmallStepsPerRev)) \X {1, 2, 4, 8} \X {-1, 1} \X BOOLEAN :
                g[1] <= SmallStepsPerRev * g[2] } }

InitObserve ==
    /\ board \in [ConfigPins -> BOOLEAN]
    /\ ioModes = [p \in ConfigPins |-> OUT]
    /\ pinToMotor = [p \in ConfigPins |-> <<"alt">>]
    /\ motor \in [{"alt"} -> MotorStates]
    /\ result = NoErr
    /\ rot = NoRot
    /\ clm = NoClm

\* output(c, <the level c has>): the motor observes the levels as they are.
\* rot keeps the motor as it was before the first such write, and counts
\* the writes up to two.
Rewrite ==
    \E c \in ConfigPins :
        \E st \in {output(boardState, Single(c), Single(board[c]))} :
            /\ board' = st.board
            /\ ioModes' = st.ioModes
            /\ pinToMotor' = st.pinToMotor
            /\ motor' = st.motor
            /\ result' = st.err
            /\ rot' = IF rot = NoRot
                      THEN [called |-> FALSE, first |-> motor["alt"], times |-> 1]
                      ELSE [rot EXCEPT !.times = 2]
            /\ UNCHANGED clm

NextObserve == Rewrite

SpecObserve == InitObserve /\ [][NextObserve]_vars

-----------------------------------------------------------------------------
(* The board calls, one line at a time and in sequences *)

\* the lines of the board that the calls above name
RegisteredIds == CallIds \cap ConfigPins

\* this step is a cleanup call that names line c
releases(c) ==
    \/ Cleanup(Single(c))
    \/ CleanupAll
    \/ \E cs \in CallLists : inList(c, cs) /\ Cleanup(Many(cs))

\* this step is output(c, s) for some level s
writes(c) == Output(Single(c), Single(board'[c]))

\* C11: for every registered line c, a cleanup that names c (or names no
\* line, and so frees them all) leaves c with no io mode and LOW; while c has
\* no io mode its level is LOW and every output(c, s) raises the mode-not-set
\* error and changes nothing, no motor included; c gets an io mode again only
\* in a setup call, and then it is OUT and output(c, s) succeeds.
C11_ReleasedLineRefusesWrites ==
    /\ [](\A c \in RegisteredIds : ioModes[c] = None => ~board[c])
    /\ [][ \A c \in RegisteredIds :
             /\ releases(c) => (ioModes'[c] = None /\ ~board'[c])
             /\ (ioModes[c] = None /\ writes(c)) =>
                    /\ result' = ModeNotSetError
                    /\ board' = board
                    /\ ioModes' = ioModes
                    /\ pinToMotor' = pinToMotor
                    /\ motor' = motor
             /\ (ioModes[c] = None /\ ioModes'[c] # None) =>
                    (ioModes'[c] = OUT /\ (SetupOne \/ SetupList))
             /\ (ioModes[c] = OUT /\ writes(c)) => result' = NoErr ]_vars

\* the step line has carried a step of the motor, has no io mode now, and the
\* last call was refused for that
C11_Witness ==
    /\ plugged("alt", AltStep)
    /\ alt._msteps # 0
    /\ ioModes[AltStep] = None
    /\ ~board[AltStep]
    /\ result = ModeNotSetError

\* id c is no key of any of the board's dictionaries
unknownId(c) ==
    /\ c \notin DOMAIN board
    /\ c \notin DOMAIN ioModes
    /\ c \notin DOMAIN pinToMotor

\* C12, as claimed: setup(c, OUT) on an id c that is no line of the board
\* raises the unknown-line error (KeyError) and leaves the board as it was:
\* c does not become a line and gets no io mode, so that a later output(c, s)
\* still raises KeyError.
C12_SetupUnknownIdFails ==
    [][ (unknownId(Unreg) /\ Setup(Single(Unreg), Single(OUT))) =>
            /\ result' = KeyError
            /\ ioModes' = ioModes
            /\ board' = board
            /\ Unreg \notin DOMAIN ioModes' ]_vars

\* C13, as claimed: cleanup of an id that is no line of the board does not
\* raise and skips the id: the board has the same lines after the call as
\* before it (the id is not added), the lines the call does not name keep
\* their io mode and level, and a line named in the same call is reset to no
\* io mode and LOW.
C13_CleanupSkipsUnknownId ==
    [][ /\ (unknownId(Unreg) /\ Cleanup(Single(Unreg))) =>
               /\ result' = NoErr
               /\ board' = board
               /\ ioModes' = ioModes
        /\ (unknownId(Unreg) /\ Cleanup(Many(<<AltStep, Unreg>>))) =>
               /\ result' = NoErr
               /\ DOMAIN board' = DOMAIN board
               /\ DOMAIN ioModes' = DOMAIN ioModes
               /\ ioModes'[AltStep] = None
               /\ ~board'[AltStep]
               /\ \A c \in DOMAIN board \ {AltStep} :
                      board'[c] = board[c] /\ ioModes'[c] = ioModes[c] ]_vars

\* C14, as claimed: vPlugIn(motor, c) with a single line id c completes
\* without error and plugs the motor into c exactly as vPlugIn(motor, [c])
\* does, so that the next successful write to c makes the motor observe.
C14_PlugInSingleId ==
    [][ \A c \in RegisteredIds :
            VPlugIn("alt", Single(c)) =>
                /\ result' = NoErr
                /\ inList("alt", pinToMotor'[c])
                /\ pinToMotor' = vPlugIn(boardState, "alt", Many(<<c>>)).pinToMotor
      ]_vars

\* the last call ended in an exception
raised == result \in {KeyError, ModeNotSetError, InputError, ValueError,
                      UnboundLocalError}

\* C15, as claimed: when a setup, output or vPlugIn call on a sequence of ids
\* raises (the IN mode, an unknown id, a line without io mode), it has changed
\* nothing: no io mode, no level, no plug-in and no field of a motor differs
\* from the state before the call.
C15_FailedCallChangesNothing ==
    [][ ((SetupList \/ OutputList \/ VPlugInList) /\ raised') =>
            /\ board' = board
            /\ ioModes' = ioModes
            /\ pinToMotor' = pinToMotor
            /\ motor' = motor ]_vars

-----------------------------------------------------------------------------
(* The motor's position and mode under board calls *)

\* vMotor.msteps, the accessor: the stored value as it is
msteps(m) == m._msteps

inRange(m) == 0 <= msteps(m) /\ msteps(m) < m.STEPS_PER_REV * m._mstepMode

pluggedIntoAll ==
    \A c \in {alt.PINS.step, alt.PINS.dir, alt.PINS.ms1, alt.PINS.ms2} :
        plugged("alt", c)

\* C16, as claimed: for a motor (gear ratio 1) plugged into its four lines,
\* with its mode the one its microstep lines select, a board call that starts
\* with 0 <= msteps < STEPS_PER_REV * _mstepMode ends with msteps in that
\* range for the mode then in force; so the range holds in every state
\* reached by step pulses and microstep-mode changes.
C16_MstepsInRange ==
    [][ (pluggedIntoAll /\ modeInSync(alt, board) /\ inRange(alt)) =>
            inRange(alt') ]_vars

\* every line's io mode is OUT or None
noInputLine == \A c \in DOMAIN ioModes : ioModes[c] \in {OUT, None}

C18_WriteChangesOneLine ==
    [][ \A c \in CallIds \cap DOMAIN board' :
            (result' = NoErr /\ Output(Single(c), Single(board'[c]))) =>
                /\ DOMAIN board' = DOMAIN board \cup {c}
                /\ \A d \in DOMAIN board \ {c} : board'[d] = board[d]
                /\ ioModes' = ioModes
                /\ pinToMotor' = pinToMotor
                /\ \A n \in DOMAIN motor :
                       motor'[n] = IF c \in DOMAIN pinToMotor /\ plugged(n, c)
                                   THEN updateState(motor[n], board')
                                   ELSE motor[n] ]_vars

\* the motor, plugged into its step line only, has stepped clockwise, and its
\* direction line was written HIGH after that: the motor has not turned
C18_Witness ==
    /\ plugged("alt", alt.PINS.step)
    /\ ~plugged("alt", alt.PINS.dir)
    /\ alt._msteps # 0
    /\ board[alt.PINS.dir]
    /\ alt._dir = 1
    /\ result = NoErr

\* C19, as claimed: for a motor plugged into both of its microstep lines whose
\* mode is the table value of their levels, every board call (setup, output,
\* cleanup) ends with _mstepMode the table value of the levels the ms1 and
\* ms2 lines then have: the mode is never out of step with the board.
C19_ModeFollowsLines ==
    [][ (/\ plugged("alt", alt.PINS.ms1)
         /\ plugged("alt", alt.PINS.ms2)
         /\ modeInSync(alt, board)) => modeInSync(alt', board') ]_vars

-----------------------------------------------------------------------------
(* updateState twice on the same levels *)

\* some line has been written the level it had
rewritten == "first" \in DOMAIN rot

\* C20: updateState is idempotent on unchanged levels.  For every motor state
\* (position, direction, mode, latch) and all levels of the four lines, the
\* first output(c, s) that writes a line the level it has leaves the motor as
\* updateState makes it, and every further such write leaves the motor as it
\* is: the motor does not move a second time.
C20_ObserveIdempotent ==
    /\ [](rewritten => alt = updateState(rot.first, board))
    /\ [][ rewritten => motor' = motor ]_vars

\* two such writes, the first of which stepped the motor and changed its mode
C20_Witness ==
    /\ rewritten
    /\ rot.times = 2
    /\ board[alt.PINS.step]
    /\ ~rot.first._hasMoved
    /\ rot.first._msteps # alt._msteps
    /\ rot.first._mstepMode # alt._mstepMode

====
